---------------------------- MODULE Spec2Model ----------------------------
(***************************************************************************)
(* A model of the swap recommendation and execution pipeline:              *)
(*   - SwapExecutor (swap_executor.py): wallet loading, token approval,   *)
(*     transaction building and the execute_swap state machine;            *)
(*   - the HTTP layer (api/main.py): /execute-swap and /connect-wallet;    *)
(*   - the advice pipeline (query_engine.py, llm_model.py,                 *)
(*     vector_store.py): get_best_swap_path and its collaborators.         *)
(*                                                                         *)
(* Python floats are IEEE-754 doubles.  They are modelled bit-exactly for  *)
(* the non-negative values the builder computes with: a double is a pair   *)
(* (m, e) standing for m * 2^e with m a 53-bit significand, and every      *)
(* operation rounds to nearest, ties to even.  Significands and amounts   *)
(* in the smallest on-chain unit exceed the 32-bit integers of the model   *)
(* checker, so they are kept as little-endian sequences of 15-bit limbs.   *)
(***************************************************************************)
EXTENDS Integers, Sequences, FiniteSets, TLC

None == "None"

(***************************************************************************)
(* Arbitrary-precision naturals (Python int).                              *)
(***************************************************************************)
LimbBits == 15
Base == 32768

RECURSIVE BNorm(_)
BNorm(s) ==
    IF s = <<>> THEN <<>>
    ELSE IF s[Len(s)] = 0 THEN BNorm(SubSeq(s, 1, Len(s) - 1))
    ELSE s

RECURSIVE BFromInt(_)
BFromInt(n) ==
    IF n = 0 THEN <<>> ELSE <<n % Base>> \o BFromInt(n \div Base)

RECURSIVE BToInt(_)
BToInt(s) ==
    IF s = <<>> THEN 0 ELSE Head(s) + Base * BToInt(Tail(s))

RECURSIVE BAddC(_, _, _)
BAddC(a, b, c) ==
    IF a = <<>> /\ b = <<>>
    THEN (IF c = 0 THEN <<>> ELSE <<c>>)
    ELSE LET x  == (IF a = <<>> THEN 0 ELSE Head(a))
                   + (IF b = <<>> THEN 0 ELSE Head(b)) + c
             ta == IF a = <<>> THEN <<>> ELSE Tail(a)
             tb == IF b = <<>> THEN <<>> ELSE Tail(b)
         IN  <<x % Base>> \o BAddC(ta, tb, x \div Base)

BAdd(a, b) == BAddC(a, b, 0)

\* a - b for a >= b, limb by limb with a borrow
RECURSIVE BSubC(_, _, _)
BSubC(a, b, c) ==
    IF a = <<>> THEN <<>>
    ELSE LET x  == Head(a) - (IF b = <<>> THEN 0 ELSE Head(b)) - c
             tb == IF b = <<>> THEN <<>> ELSE Tail(b)
         IN  IF x < 0 THEN <<x + Base>> \o BSubC(Tail(a), tb, 1)
             ELSE <<x>> \o BSubC(Tail(a), tb, 0)

BSub(a, b) == BNorm(BSubC(a, b, 0))

\* -1, 0, 1 as a < b, a = b, a > b (both normalised)
RECURSIVE BCmpAt(_, _, _)
BCmpAt(a, b, i) ==
    IF i = 0 THEN 0
    ELSE IF a[i] < b[i] THEN -1
    ELSE IF a[i] > b[i] THEN 1
    ELSE BCmpAt(a, b, i - 1)

BCmp(a, b) ==
    IF Len(a) < Len(b) THEN -1
    ELSE IF Len(a) > Len(b) THEN 1
    ELSE BCmpAt(a, b, Len(a))

\* a * k for a small k (0 <= k <= Base)
RECURSIVE BMulSmallC(_, _, _)
BMulSmallC(a, k, c) ==
    IF a = <<>> THEN (IF c = 0 THEN <<>> ELSE <<c % Base>> \o BMulSmallC(<<>>, k, c \div Base))
    ELSE LET x == Head(a) * k + c
         IN  <<x % Base>> \o BMulSmallC(Tail(a), k, x \div Base)

BMulSmall(a, k) == BNorm(BMulSmallC(a, k, 0))

RECURSIVE BMul(_, _)
BMul(a, b) ==
    IF b = <<>> \/ a = <<>> THEN <<>>
    ELSE BNorm(BAdd(BMulSmall(a, Head(b)), <<0>> \o BMul(a, Tail(b))))

\* quotient and remainder of a by a small k (1 <= k <= Base), most
\* significant limb first
RECURSIVE BDivModSmallAt(_, _, _, _)
BDivModSmallAt(a, k, i, r) ==
    IF i = 0 THEN [q |-> <<>>, r |-> r]
    ELSE LET cur  == r * Base + a[i]
             rest == BDivModSmallAt(a, k, i - 1, cur % k)
         IN  [q |-> rest.q \o <<cur \div k>>, r |-> rest.r]

BDivModSmall(a, k) ==
    LET d == BDivModSmallAt(a, k, Len(a), 0)
    IN  [q |-> BNorm(d.q), r |-> d.r]

Zeros(n) == [i \in 1..n |-> 0]

\* a * 2^n
BShl(a, n) ==
    IF a = <<>> THEN <<>>
    ELSE BMulSmall(Zeros(n \div LimbBits) \o a, 2^(n % LimbBits))

\* floor(a / 2^n)
BShr(a, n) ==
    IF Len(a) <= n \div LimbBits THEN <<>>
    ELSE BDivModSmall(SubSeq(a, (n \div LimbBits) + 1, Len(a)), 2^(n % LimbBits)).q

RECURSIVE BitLenSmall(_)
BitLenSmall(n) == IF n = 0 THEN 0 ELSE 1 + BitLenSmall(n \div 2)

BBitLen(a) ==
    IF a = <<>> THEN 0 ELSE LimbBits * (Len(a) - 1) + BitLenSmall(a[Len(a)])

BIsOdd(a) == a # <<>> /\ a[1] % 2 = 1

RECURSIVE BPow10(_)
BPow10(n) == IF n = 0 THEN <<1>> ELSE BMulSmall(BPow10(n - 1), 10)

(***************************************************************************)
(* IEEE-754 doubles (Python float), non-negative, round to nearest even.   *)
(***************************************************************************)
MantBits == 53

DblZero == [m |-> <<>>, e |-> 0]

\* a rounded significand q2 of at most 54 bits at exponent e: renormalise
\* when the rounding carried into a 54th bit
RoundCarry(q2, e) ==
    IF BBitLen(q2) > MantBits THEN [m |-> BShr(q2, 1), e |-> e + 1]
    ELSE [m |-> q2, e |-> e]

\* round the 53-bit quotient q up or not: c compares the discarded bits
\* with one half (-1, 0, 1); a tie goes up if sticky or if q is odd
RoundUp(q, c, sticky) ==
    IF c = 1 \/ (c = 0 /\ (sticky \/ BIsOdd(q))) THEN BAdd(q, <<1>>) ELSE q

\* N has k bits more than a significand; q is its top 53 bits
RoundShift(N, e, sticky, k, q) ==
    RoundCarry(RoundUp(q, BCmp(BSub(N, BShl(q, k)), BShl(<<1>>, k - 1)),
                       sticky),
               e + k)

\* N has bl bits
RoundBits(N, e, sticky, bl) ==
    IF bl <= MantBits
    THEN [m |-> BShl(N, MantBits - bl), e |-> e - (MantBits - bl)]
    ELSE RoundShift(N, e, sticky, bl - MantBits, BShr(N, bl - MantBits))

\* the double nearest to (N + f) * 2^e, where 0 < f < 1 if sticky and
\* f = 0 otherwise (sticky requires N to have more than 53 bits)
RoundSticky(N, e, sticky) ==
    IF N = <<>> THEN DblZero ELSE RoundBits(N, e, sticky, BBitLen(N))

\* float(n) for a Python int n
DblFromBig(N) == RoundSticky(N, 0, FALSE)
DblFromInt(n) == DblFromBig(BFromInt(n))

\* x / d for a float x and a small positive int d (d converts exactly)
DblDivRound(dm, e) == RoundSticky(dm.q, e, dm.r # 0)

DblDivInt(x, d) ==
    IF x.m = <<>> THEN DblZero
    ELSE DblDivRound(BDivModSmall(BShl(x.m, 16), d), x.e - 16)

MinExp(a, b) == IF a.e < b.e THEN a.e ELSE b.e

DblSubAt(a, b, emin) ==
    RoundSticky(BSub(BShl(a.m, a.e - emin), BShl(b.m, b.e - emin)),
                emin, FALSE)

\* a - b for floats a >= b >= 0
DblSub(a, b) == IF b.m = <<>> THEN a ELSE DblSubAt(a, b, MinExp(a, b))

DblMul(a, b) == RoundSticky(BMul(a.m, b.m), a.e + b.e, FALSE)

\* int(x): truncation towards zero
DblTrunc(x) == IF x.e >= 0 THEN BShl(x.m, x.e) ELSE BShr(x.m, 0 - x.e)

\* -1, 0, 1 as a < b, a = b, a > b
DblCmp(a, b) ==
    IF a.m = <<>> /\ b.m = <<>> THEN 0
    ELSE IF a.m = <<>> THEN -1
    ELSE IF b.m = <<>> THEN 1
    ELSE BCmp(BShl(a.m, a.e - MinExp(a, b)), BShl(b.m, b.e - MinExp(a, b)))


(***************************************************************************)
(* Registry (swap_executor.py).  Addresses are abbreviated to their first  *)
(* four hex digits; the registry stores them in checksum case.             *)
(***************************************************************************)
TOKEN_ADDRESSES ==
    [ETH  |-> "0xEeee", WETH |-> "0xC02a", USDC |-> "0xA0b8",
     USDT |-> "0xdAC1", DAI  |-> "0x6B17", WBTC |-> "0x2260"]

DEX_ROUTER_ADDRESSES ==
    ("Uniswap V2" :> "0x7a25") @@ ("Uniswap V3" :> "0xE592")
    @@ ("SushiSwap" :> "0xd9e1") @@ ("1inch" :> "0x1111")

\* decimals() of the registry's ERC-20 contracts on mainnet
TokenDecimals ==
    [WETH |-> 18, USDC |-> 6, USDT |-> 6, DAI |-> 18, WBTC |-> 8]

\* Account.from_key: the address of a well-formed private key
KeyAddress == [k1 |-> "0xAb58", k2 |-> "0xCd34"]

\* web3.to_checksum_address: the checksum-case form of a well-formed hex
\* address; anything else raises ValueError
ChecksumTable ==
    ("0xab58" :> "0xAb58") @@ ("0xAb58" :> "0xAb58")
    @@ ("0xcd34" :> "0xCd34") @@ ("0xCd34" :> "0xCd34")
    @@ ("0xde57" :> "0xDe57") @@ ("0xDe57" :> "0xDe57")
    @@ [s \in {TOKEN_ADDRESSES[t] : t \in DOMAIN TOKEN_ADDRESSES} |-> s]
    @@ [s \in {DEX_ROUTER_ADDRESSES[d] : d \in DOMAIN DEX_ROUTER_ADDRESSES} |-> s]

IsAddress(a) == a \in DOMAIN ChecksumTable
to_checksum_address(a) == ChecksumTable[a]

(***************************************************************************)
(* Input domains of the model.                                             *)
(***************************************************************************)
MaxAmount == 2
MaxBalance == 1

TokenInputs == {"ETH", "USDC", "DAI", "XYZ"}
DexInputs == {"Uniswap V2", "PancakeSwap"}
AmountInputs == 0..MaxAmount
BalanceInputs == 0..MaxBalance
\* slippage percentages 0.5, 7.0 and 100.0 as floats
SlippageHalf == DblDivInt(DblFromInt(1), 2)
SlippageInputs == {SlippageHalf, DblFromInt(7), DblFromInt(100)}
DestInputs == {None, "0xde57", "not-an-address"}
KeyInputs == {"k1", "bad-key"}
\* Optional[bool] arguments: <<>> is None, <<b>> is the boolean b
OptBool == {<<>>, <<TRUE>>, <<FALSE>>}
\* outcome of the router's estimate_gas dry run: <<>> when the node
\* rejects the simulation, <<g>> for an estimate of g units
GasEstimates == {<<>>, <<123457>>, <<21000>>}

(***************************************************************************)
(* Failures.  Every precondition failure of the executor is a ValueError;  *)
(* the messages are the literal prefixes of the source's f-strings.        *)
(***************************************************************************)
MsgNoWallet == "No wallet connected. Use load_wallet() first."
MsgInvalidDest == "Invalid destination address format"
MsgUnknownSource == "Unknown source token"
MsgUnknownDest == "Unknown destination token"
MsgInsufficient == "Insufficient balance"
MsgUnsupportedDex == "Unsupported DEX"
MsgUnknownToken == "Unknown token"
MsgUnknownDex == "Unknown DEX"
MsgRpcRejected == "rpc error"
MsgTimeExhausted == "Transaction is not in the chain"

ValueError(msg) == [type |-> "ValueError", msg |-> msg]
TimeExhausted == [type |-> "TimeExhausted", msg |-> MsgTimeExhausted]
NoError == [type |-> None, msg |-> None]

TestTxHash == "test_tx_hash"
RealTxHash == "0x5f3c"
FallbackGas == 300000


(***************************************************************************)
(* State.                                                                  *)
(***************************************************************************)
VARIABLES
    env_private_key, \* WALLET_PRIVATE_KEY of the process environment
    test_mode,       \* swap_executor.test_mode
    account,         \* swap_executor.account (the loaded key) or None
    address,         \* swap_executor.address or None
    allowance,       \* on-chain: <<owner, token, dex>> with a confirmed approval
    pc,              \* position of the running call
    call,            \* operation and arguments of the running call
    swap_data,       \* <<>> or <<the dict generate_swap_transaction returned>>
    nSign,           \* sign_transaction calls of the running call
    nSend,           \* send_raw_transaction calls of the running call
    outcome,         \* how the running call ended
    response,        \* the HTTP response of the running request
    adv_call,        \* get_best_swap_path: the query and what the
                     \* collaborators answered
    adv_result,      \* get_best_swap_path: what it returned or raised
    fn_call,         \* a call of a module-level function: name and arguments
    fn_result,       \* what that call returned
    fetch            \* make_alchemy_request: the loop of the running call

vars == <<env_private_key, test_mode, account, address, allowance, pc, call,
          swap_data, nSign, nSend, outcome, response, adv_call, adv_result,
          fn_call, fn_result, fetch>>

fnVars == <<fn_call, fn_result, fetch>>

advVars == <<adv_call, adv_result, fnVars>>

execVars ==
    <<env_private_key, test_mode, account, address, allowance, call, swap_data,
      nSign, nSend, outcome, response>>

executor == <<test_mode, account, address>>

(***************************************************************************)
(* SwapExecutor.generate_swap_transaction                                  *)
(***************************************************************************)
\* amount (whole tokens) in the smallest unit of from_token
AmountInWei(from_token, amount) ==
    IF from_token = "ETH"
    THEN BMul(BFromInt(amount), BPow10(18))
    ELSE DblTrunc(DblMul(DblFromInt(amount),
                         DblFromBig(BPow10(TokenDecimals[from_token]))))

AmountOutMin(amount_in_wei, slippage) ==
    DblTrunc(DblMul(DblFromBig(amount_in_wei),
                    DblSub(DblFromInt(1), DblDivInt(slippage, 100))))

\* variant of GasLimit without the safety margin
GasLimit_NoMargin(gas_estimate) ==
    IF gas_estimate = <<>> THEN FallbackGas ELSE gas_estimate[1]

GasLimit(gas_estimate) ==
    IF gas_estimate = <<>> THEN FallbackGas
    ELSE BToInt(DblTrunc(DblMul(DblFromInt(gas_estimate[1]),
                                DblDivInt(DblFromInt(12), 10))))

\* variant of RouterPath that leaves an ETH endpoint as it is
RouterPath_NativeKept(from_token, to_token) ==
    << to_checksum_address(TOKEN_ADDRESSES[from_token]),
       to_checksum_address(TOKEN_ADDRESSES[to_token]) >>

RouterPath(from_token, to_token) ==
    << IF from_token = "ETH" THEN to_checksum_address(TOKEN_ADDRESSES["WETH"])
       ELSE to_checksum_address(TOKEN_ADDRESSES[from_token]),
       IF to_token = "ETH" THEN to_checksum_address(TOKEN_ADDRESSES["WETH"])
       ELSE to_checksum_address(TOKEN_ADDRESSES[to_token]) >>

RouterFunction(from_token, to_token) ==
    IF from_token = "ETH" /\ to_token # "ETH" THEN "swapExactETHForTokens"
    ELSE IF from_token # "ETH" /\ to_token = "ETH" THEN "swapExactTokensForETH"
    ELSE "swapExactTokensForTokens"

Raised(err) == [ok |-> FALSE, error |-> err, data |-> <<>>]
Returned(d) == [ok |-> TRUE, error |-> NoError, data |-> <<d>>]

\* variant: the balance of from_token is never compared with the amount
BuildPreconditionError_NoBalanceCheck(acct, addr, from_token, to_token, amount, dex_name, destination_address, balance) ==
    LET destination == IF destination_address # None THEN destination_address
                       ELSE addr
    IN  IF acct = None THEN ValueError(MsgNoWallet)
        ELSE IF destination # None /\ ~IsAddress(destination)
             THEN ValueError(MsgInvalidDest)
        ELSE IF from_token \notin DOMAIN TOKEN_ADDRESSES /\ from_token # "ETH"
             THEN ValueError(MsgUnknownSource)
        ELSE IF to_token \notin DOMAIN TOKEN_ADDRESSES /\ to_token # "ETH"
             THEN ValueError(MsgUnknownDest)
        ELSE IF dex_name \notin DOMAIN DEX_ROUTER_ADDRESSES
             THEN ValueError(MsgUnsupportedDex)
        ELSE NoError

\* variant: the destination token is looked up only after the balance check
BuildPreconditionError_BalanceFirst(acct, addr, from_token, to_token, amount, dex_name, destination_address, balance) ==
    LET destination == IF destination_address # None THEN destination_address
                       ELSE addr
    IN  IF acct = None THEN ValueError(MsgNoWallet)
        ELSE IF destination # None /\ ~IsAddress(destination)
             THEN ValueError(MsgInvalidDest)
        ELSE IF from_token \notin DOMAIN TOKEN_ADDRESSES /\ from_token # "ETH"
             THEN ValueError(MsgUnknownSource)
        ELSE IF balance < amount THEN ValueError(MsgInsufficient)
        ELSE IF to_token \notin DOMAIN TOKEN_ADDRESSES /\ to_token # "ETH"
             THEN ValueError(MsgUnknownDest)
        ELSE IF dex_name \notin DOMAIN DEX_ROUTER_ADDRESSES
             THEN ValueError(MsgUnsupportedDex)
        ELSE NoError

\* variant: an unknown DEX is reported with the message of an unknown token
BuildPreconditionError_DexAsToken(acct, addr, from_token, to_token, amount, dex_name, destination_address, balance) ==
    LET destination == IF destination_address # None THEN destination_address
                       ELSE addr
    IN  IF acct = None THEN ValueError(MsgNoWallet)
        ELSE IF destination # None /\ ~IsAddress(destination)
             THEN ValueError(MsgInvalidDest)
        ELSE IF from_token \notin DOMAIN TOKEN_ADDRESSES /\ from_token # "ETH"
             THEN ValueError(MsgUnknownSource)
        ELSE IF to_token \notin DOMAIN TOKEN_ADDRESSES /\ to_token # "ETH"
             THEN ValueError(MsgUnknownDest)
        ELSE IF balance < amount THEN ValueError(MsgInsufficient)
        ELSE IF dex_name \notin DOMAIN DEX_ROUTER_ADDRESSES
             THEN ValueError(MsgUnknownDest)
        ELSE NoError

\* The first failing check of the builder, or NoError.  balance is the
\* live balance get_token_balance returns for from_token.
BuildPreconditionError(acct, addr, from_token, to_token, amount, dex_name, destination_address, balance) ==
    LET destination == IF destination_address # None THEN destination_address
                       ELSE addr
    IN  IF acct = None THEN ValueError(MsgNoWallet)
        ELSE IF destination # None /\ ~IsAddress(destination)
             THEN ValueError(MsgInvalidDest)
        ELSE IF from_token \notin DOMAIN TOKEN_ADDRESSES /\ from_token # "ETH"
             THEN ValueError(MsgUnknownSource)
        ELSE IF to_token \notin DOMAIN TOKEN_ADDRESSES /\ to_token # "ETH"
             THEN ValueError(MsgUnknownDest)
        ELSE IF balance < amount THEN ValueError(MsgInsufficient)
        ELSE IF dex_name \notin DOMAIN DEX_ROUTER_ADDRESSES
             THEN ValueError(MsgUnsupportedDex)
        ELSE NoError

\* lines 419-536: the router call and the dictionary handed back
SwapData(addr, inst_test_mode, from_token, to_token, amount, dex_name, slippage, destination, path, fn, amount_in_wei, amount_out_min, gas) ==
    [test_mode |-> inst_test_mode,
     tx_data   |-> [fn      |-> fn,
                    args    |-> IF fn = "swapExactETHForTokens"
                                THEN <<amount_out_min, path, destination>>
                                ELSE <<amount_in_wei, amount_out_min, path,
                                       destination>>,
                    from    |-> addr,
                    value   |-> IF fn = "swapExactETHForTokens"
                                THEN amount_in_wei ELSE <<>>,
                    gas     |-> gas,
                    chainId |-> 1],
     details   |-> [from_token     |-> from_token,
                    to_token       |-> to_token,
                    amount         |-> amount,
                    dex            |-> dex_name,
                    slippage       |-> slippage,
                    destination    |-> destination,
                    path           |-> path,
                    min_amount_out |-> amount_out_min]]

\* lines 409-417: amount_in_wei is computed, then amount_out_min from it
SwapDataFor(addr, inst_test_mode, from_token, to_token, amount, dex_name, slippage, destination, gas_estimate, amount_in_wei) ==
    SwapData(addr, inst_test_mode, from_token, to_token, amount, dex_name,
             slippage, destination, RouterPath(from_token, to_token),
             RouterFunction(from_token, to_token), amount_in_wei,
             AmountOutMin(amount_in_wei, slippage), GasLimit(gas_estimate))

BuildResult(err, data) == IF err # NoError THEN Raised(err) ELSE Returned(data)

generate_swap_transaction(acct, addr, inst_test_mode, from_token, to_token, amount, dex_name, slippage, destination_address, balance, gas_estimate) ==
    BuildResult(
        BuildPreconditionError(acct, addr, from_token, to_token, amount,
                               dex_name, destination_address, balance),
        SwapDataFor(addr, inst_test_mode, from_token, to_token, amount,
                    dex_name, slippage,
                    to_checksum_address(IF destination_address # None
                                        THEN destination_address ELSE addr),
                    gas_estimate, AmountInWei(from_token, amount)))


(***************************************************************************)
(* Calls.                                                                  *)
(***************************************************************************)
NoCall ==
    [op |-> None, via |-> None, from_token |-> None, to_token |-> None,
     amount |-> 0, dex_name |-> None, slippage |-> DblZero,
     destination_address |-> None, test_mode |-> <<>>, private_key |-> None,
     balance |-> 0, gas_estimate |-> <<-1>>, receipt |-> None]

NoOutcome == [kind |-> None, value |-> None, error |-> NoError]
Return(v) == [kind |-> "return", value |-> v, error |-> NoError]
Raise(err) == [kind |-> "raise", value |-> None, error |-> err]

NoResponse == [status |-> 0, success |-> FALSE, tx_hash |-> None, detail |-> None]

NoAdviceCall ==
    [op |-> None, query |-> <<>>, historical |-> None, quote |-> None,
     llm |-> [ok |-> TRUE, text |-> <<>>]]
NoAdviceResult ==
    [kind |-> None, advice |-> <<>>, swap_details |-> <<>>, error |-> NoError]

NoFnCall == [op |-> None, args |-> <<>>]
NoFnResult == <<>>
\* attempt: the loop variable; outcomes: how each attempt made so far
\* ended; waits: the time.sleep calls made so far
NoFetch == [attempt |-> 0, outcomes |-> <<>>, waits |-> <<>>]

\* variant: a call without a test_mode argument is not simulated
EffectiveTestMode_ArgOnly(arg, inst_test_mode) == arg = <<TRUE>>

\* variant: the test_mode argument of the call is ignored
EffectiveTestMode_InstanceOnly(arg, inst_test_mode) == inst_test_mode

\* execute_swap: the simulate flag in force for one call
EffectiveTestMode(arg, inst_test_mode) ==
    IF arg = <<>> THEN inst_test_mode ELSE arg[1]

\* the wallet's live balance of from_token, as the chain may report it
LiveBalances(from_token) ==
    IF account # None /\ (from_token \in DOMAIN TOKEN_ADDRESSES)
    THEN BalanceInputs ELSE {0}

Init ==
    /\ env_private_key \in {None, "k1"}
    /\ test_mode = TRUE
    /\ account = env_private_key
    /\ address = IF env_private_key = None THEN None
                 ELSE KeyAddress[env_private_key]
    /\ allowance = {}
    /\ pc = "idle"
    /\ call = NoCall
    /\ swap_data = <<>>
    /\ nSign = 0
    /\ nSend = 0
    /\ outcome = NoOutcome
    /\ response = NoResponse
    /\ adv_call = NoAdviceCall
    /\ adv_result = NoAdviceResult
    /\ fn_call = NoFnCall
    /\ fn_result = NoFnResult
    /\ fetch = NoFetch

\* execute_swap, entry: resolve the simulate flag, require a wallet
ExecuteSwap(via, from_token, to_token, amount, dex_name, slippage, destination_address, tm, balance) ==
    /\ call' = [NoCall EXCEPT !.op = "execute_swap", !.via = via,
                              !.from_token = from_token, !.to_token = to_token,
                              !.amount = amount, !.dex_name = dex_name,
                              !.slippage = slippage,
                              !.destination_address = destination_address,
                              !.test_mode = tm, !.balance = balance]
    /\ IF account = None
       THEN pc' = "done" /\ outcome' = Raise(ValueError(MsgNoWallet))
       ELSE pc' = "building" /\ outcome' = NoOutcome
    /\ nSign' = 0 /\ nSend' = 0 /\ swap_data' = <<>>
    /\ UNCHANGED <<advVars, env_private_key, executor, allowance, response>>

\* a caller of the SwapExecutor class
LibExecuteSwap ==
    /\ pc = "idle"
    /\ \E f \in TokenInputs, t \in TokenInputs, a \in AmountInputs,
          d \in DexInputs, s \in SlippageInputs, dest \in DestInputs,
          tm \in OptBool :
        \E b \in LiveBalances(f) :
            ExecuteSwap("lib", f, t, a, d, s, dest, tm, b)

\* POST /execute-swap: no destination, test_mode is a bool query parameter
ApiExecuteSwap ==
    /\ pc = "idle"
    /\ \E f \in TokenInputs, t \in TokenInputs, a \in AmountInputs,
          d \in DexInputs, s \in SlippageInputs, tm \in BOOLEAN :
        \E b \in LiveBalances(f) :
            ExecuteSwap("api", f, t, a, d, s, None, <<tm>>, b)

\* execute_swap, line 561: r is what generate_swap_transaction gave
Built(g, r) ==
    IF r.ok
    THEN /\ swap_data' = r.data
         /\ call' = [call EXCEPT !.gas_estimate = g]
         /\ pc' = "built"
         /\ outcome' = outcome
    ELSE /\ swap_data' = <<>>
         /\ call' = call
         /\ pc' = "done"
         /\ outcome' = Raise(r.error)

\* execute_swap, line 561: build the swap transaction
Build ==
    /\ pc = "building"
    /\ \E g \in GasEstimates :
        Built(g, generate_swap_transaction(account, address, test_mode,
                     call.from_token, call.to_token, call.amount,
                     call.dex_name, call.slippage, call.destination_address,
                     call.balance, g))
    /\ UNCHANGED <<advVars, env_private_key, executor, allowance, nSign, nSend, response>>

\* execute_swap, lines 563-565: simulate mode returns the placeholder
SimulateReturn ==
    /\ pc = "built"
    /\ EffectiveTestMode(call.test_mode, test_mode)
    /\ outcome' = Return(TestTxHash)
    /\ pc' = "done"
    /\ UNCHANGED <<advVars, env_private_key, executor, allowance, call, swap_data,
                   nSign, nSend, response>>

\* execute_swap, line 568
Sign ==
    /\ pc = "built"
    /\ ~EffectiveTestMode(call.test_mode, test_mode)
    /\ nSign' = nSign + 1
    /\ pc' = "signed"
    /\ UNCHANGED <<advVars, env_private_key, executor, allowance, call, swap_data,
                   nSend, outcome, response>>

\* variant: a rejected broadcast is sent a second time
Broadcast_Retry ==
    /\ pc = "signed"
    /\ nSend' = nSend + 1
    /\ \E accepted \in BOOLEAN :
        /\ call' = [call EXCEPT !.receipt = IF accepted THEN "pending"
                                            ELSE "rejected"]
        /\ IF accepted
           THEN pc' = "submitted" /\ outcome' = outcome
           ELSE IF nSend = 0
           THEN pc' = "signed" /\ outcome' = outcome
           ELSE pc' = "done" /\ outcome' = Raise(ValueError(MsgRpcRejected))
    /\ UNCHANGED <<advVars, env_private_key, executor, allowance, swap_data,
                   nSign, response>>

\* execute_swap, line 569: the node accepts or rejects the raw transaction;
\* call.receipt records what the network did with it
Broadcast ==
    /\ pc = "signed"
    /\ nSend' = nSend + 1
    /\ \E accepted \in BOOLEAN :
        /\ call' = [call EXCEPT !.receipt = IF accepted THEN "pending"
                                            ELSE "rejected"]
        /\ IF accepted
           THEN pc' = "submitted" /\ outcome' = outcome
           ELSE pc' = "done" /\ outcome' = Raise(ValueError(MsgRpcRejected))
    /\ UNCHANGED <<advVars, env_private_key, executor, allowance, swap_data,
                   nSign, response>>

\* what wait_for_transaction_receipt(tx_hash, timeout=...) can give
ReceiptScenarios == {"status1", "status0", "timeout"}

\* variant: a receipt with failure status is taken for a success
ReceiptOutcome_StatusIgnored(r) ==
    CASE r = "status1" -> Return(RealTxHash)
      [] r = "status0" -> Return(RealTxHash)
      [] r = "timeout" -> Raise(TimeExhausted)

\* execute_swap, lines 576-583: the hash when the receipt has status 1,
\* None for any other status; a wait that runs out raises
ReceiptOutcome(r) ==
    CASE r = "status1" -> Return(RealTxHash)
      [] r = "status0" -> Return(None)
      [] r = "timeout" -> Raise(TimeExhausted)

\* execute_swap, lines 576-583: wait up to 300 s for the receipt
AwaitReceipt ==
    /\ pc = "submitted"
    /\ \E r \in ReceiptScenarios :
        /\ outcome' = ReceiptOutcome(r)
        /\ call' = [call EXCEPT !.receipt = r]
    /\ pc' = "done"
    /\ UNCHANGED <<advVars, env_private_key, executor, allowance, swap_data,
                   nSign, nSend, response>>

\* r is what generate_swap_transaction gave for these arguments
Generated(f, t, a, d, s, dest, b, g, r) ==
    /\ call' = [NoCall EXCEPT
                  !.op = "generate_swap_transaction", !.via = "lib",
                  !.from_token = f, !.to_token = t, !.amount = a,
                  !.dex_name = d, !.slippage = s,
                  !.destination_address = dest, !.balance = b,
                  !.gas_estimate = IF r.ok THEN g ELSE <<-1>>]
    /\ swap_data' = r.data
    /\ outcome' = IF r.ok THEN Return("swap_data") ELSE Raise(r.error)

\* generate_swap_transaction called on its own
GenerateSwapTransaction ==
    /\ pc = "idle"
    /\ \E f \in TokenInputs, t \in TokenInputs, a \in AmountInputs,
          d \in DexInputs, s \in SlippageInputs, dest \in DestInputs,
          g \in GasEstimates :
        \E b \in LiveBalances(f) :
            Generated(f, t, a, d, s, dest, b, g,
                      generate_swap_transaction(account, address, test_mode,
                                                f, t, a, d, s, dest, b, g))
    /\ pc' = "done"
    /\ nSign' = 0 /\ nSend' = 0
    /\ UNCHANGED <<advVars, env_private_key, executor, allowance, response>>


(***************************************************************************)
(* SwapExecutor.approve_token.  chain is what the network does with the    *)
(* approval: the gas dry run fails, the node rejects the raw transaction,  *)
(* no receipt arrives within 120 s, or the receipt has status 0 or 1.      *)
(***************************************************************************)
ApprovalScenarios == {"gas_fail", "rejected", "timeout", "status0", "status1"}

approve_token(acct, addr, inst_test_mode, token_symbol, dex_name, chain) ==
    LET r(out, sg, sd, ok, rc) ==
            [outcome |-> out, nSign |-> sg, nSend |-> sd, confirmed |-> ok,
             receipt |-> rc]
    IN  IF acct = None
        THEN r(Raise(ValueError(MsgNoWallet)), 0, 0, FALSE, None)
        ELSE IF token_symbol = "ETH" THEN r(Return("True"), 0, 0, FALSE, None)
        ELSE IF token_symbol \notin DOMAIN TOKEN_ADDRESSES
             THEN r(Raise(ValueError(MsgUnknownToken)), 0, 0, FALSE, None)
        ELSE IF dex_name \notin DOMAIN DEX_ROUTER_ADDRESSES
             THEN r(Raise(ValueError(MsgUnknownDex)), 0, 0, FALSE, None)
        ELSE IF chain = "gas_fail"
             THEN r(Raise(ValueError(MsgRpcRejected)), 0, 0, FALSE, chain)
        ELSE IF inst_test_mode THEN r(Return("True"), 0, 0, FALSE, None)
        ELSE IF chain = "rejected"
             THEN r(Raise(ValueError(MsgRpcRejected)), 1, 1, FALSE, chain)
        ELSE IF chain = "timeout"
             THEN r(Raise(TimeExhausted), 1, 1, FALSE, chain)
        ELSE IF chain = "status0" THEN r(Return("False"), 1, 1, FALSE, chain)
        ELSE r(Return("True"), 1, 1, TRUE, chain)

ApproveToken ==
    /\ pc = "idle"
    /\ \E tok \in TokenInputs, d \in DexInputs, chain \in ApprovalScenarios :
        LET r == approve_token(account, address, test_mode, tok, d, chain)
        IN  /\ call' = [NoCall EXCEPT !.op = "approve_token", !.via = "lib",
                                      !.from_token = tok, !.dex_name = d,
                                      !.receipt = r.receipt]
            /\ outcome' = r.outcome
            /\ nSign' = r.nSign
            /\ nSend' = r.nSend
            /\ allowance' = IF r.confirmed
                            THEN allowance \cup {<<address, tok, d>>}
                            ELSE allowance
    /\ pc' = "done"
    /\ swap_data' = <<>>
    /\ UNCHANGED <<advVars, env_private_key, executor, response>>

(***************************************************************************)
(* SwapExecutor.load_wallet.  balance_ok: the balance query of line 246    *)
(* succeeds.                                                               *)
(***************************************************************************)
load_wallet(acct, addr, private_key, balance_ok) ==
    IF private_key \notin DOMAIN KeyAddress
    THEN [account |-> acct, address |-> addr, result |-> None]
    ELSE [account |-> private_key, address |-> KeyAddress[private_key],
          result  |-> IF balance_ok THEN KeyAddress[private_key] ELSE None]

LoadWallet ==
    /\ pc = "idle"
    /\ \E k \in KeyInputs, balance_ok \in BOOLEAN :
        LET r == load_wallet(account, address, k, balance_ok)
        IN  /\ account' = r.account
            /\ address' = r.address
            /\ outcome' = Return(r.result)
            /\ call' = [NoCall EXCEPT !.op = "load_wallet", !.via = "lib",
                                      !.private_key = k]
    /\ pc' = "done"
    /\ nSign' = 0 /\ nSend' = 0 /\ swap_data' = <<>>
    /\ UNCHANGED <<advVars, env_private_key, test_mode, allowance, response>>

(***************************************************************************)
(* HTTP layer (api/main.py).                                               *)
(***************************************************************************)
Http200(success, tx_hash, message) ==
    [status |-> 200, success |-> success, tx_hash |-> tx_hash,
     detail |-> message]
Http500(detail) ==
    [status |-> 500, success |-> FALSE, tx_hash |-> None, detail |-> detail]

\* SwapExecutor(network="mainnet", test_mode=tm): a fresh executor, with
\* the environment's key loaded when there is one
NewExecutor(tm) ==
    [test_mode |-> tm,
     account   |-> env_private_key,
     address   |-> IF env_private_key = None THEN None
                   ELSE KeyAddress[env_private_key]]

\* POST /connect-wallet
ConnectWallet ==
    /\ pc = "idle"
    /\ \E k \in KeyInputs, tm \in BOOLEAN, connected \in BOOLEAN,
          balance_ok \in BOOLEAN :
        LET fresh == NewExecutor(tm)
            r == load_wallet(fresh.account, fresh.address, k, balance_ok)
        IN  /\ call' = [NoCall EXCEPT !.op = "connect_wallet", !.via = "api",
                                      !.private_key = k, !.test_mode = <<tm>>]
            /\ IF ~connected
               THEN /\ UNCHANGED executor
                    /\ response' = Http500("Error connecting wallet")
               ELSE /\ test_mode' = tm
                    /\ account' = r.account
                    /\ address' = r.address
                    /\ response' = IF r.result = None
                                   THEN Http500("Error connecting wallet")
                                   ELSE Http200(TRUE, None,
                                            "Wallet connected successfully!")
    /\ pc' = "responded"
    /\ outcome' = NoOutcome
    /\ nSign' = 0 /\ nSend' = 0 /\ swap_data' = <<>>
    /\ UNCHANGED <<advVars, env_private_key, allowance>>

\* POST /execute-swap, lines 129-135: turn the executor's result into the
\* response
ApiRespond ==
    /\ pc = "done"
    /\ call.via = "api"
    /\ response' =
         IF outcome.kind = "raise" THEN Http500(outcome.error.msg)
         ELSE IF outcome.value # None
              THEN Http200(TRUE, outcome.value, "Swap executed successfully!")
              ELSE Http200(FALSE, None, "Swap failed or was cancelled.")
    /\ pc' = "responded"
    /\ UNCHANGED <<advVars, env_private_key, executor, allowance, call, swap_data,
                   nSign, nSend, outcome>>

\* the caller has the result; the executor is ready for the next call
Finish ==
    /\ \/ pc = "done" /\ call.via = "lib"
       \/ pc = "responded"
    /\ pc' = "idle"
    /\ call' = NoCall
    /\ swap_data' = <<>>
    /\ nSign' = 0 /\ nSend' = 0
    /\ outcome' = NoOutcome
    /\ response' = NoResponse
    /\ UNCHANGED <<advVars, env_private_key, executor, allowance>>

Next ==
    \/ LibExecuteSwap
    \/ ApiExecuteSwap
    \/ Build
    \/ SimulateReturn
    \/ Sign
    \/ Broadcast
    \/ AwaitReceipt
    \/ GenerateSwapTransaction
    \/ ApproveToken
    \/ LoadWallet
    \/ ConnectWallet
    \/ ApiRespond
    \/ Finish

Spec == Init /\ [][Next]_vars


(***************************************************************************)
(* Properties of the executor and the builder.                             *)
(***************************************************************************)
Finished == pc \in {"done", "responded"}
Executing == call.op = "execute_swap"
Building == call.op \in {"execute_swap", "generate_swap_transaction"}
HasBuilt == swap_data # <<>>
details == swap_data[1].details

\* the call asks for simulation: test_mode=True, or no test_mode argument
\* on an executor constructed in test mode
SimulateRequested ==
    call.test_mode = <<TRUE>> \/ (call.test_mode = <<>> /\ test_mode)

KnownToken(t) == t \in DOMAIN TOKEN_ADDRESSES
DestinationWellFormed ==
    call.destination_address = None \/ IsAddress(call.destination_address)
BalanceShort ==
    account # None /\ KnownToken(call.from_token) /\ call.balance < call.amount
NothingSubmitted == ~HasBuilt /\ nSign = 0 /\ nSend = 0

\* C1: a swap from a non-native token is built, signed or broadcast only
\* after the approval of that token for the router has been confirmed.
C1_ApprovalConfirmedBeforeBuild ==
    (Executing /\ call.from_token # "ETH"
        /\ (HasBuilt \/ nSign > 0 \/ nSend > 0))
    => <<address, call.from_token, call.dex_name>> \in allowance

\* C2 as stated: every simulate-mode execution ends, without a broadcast,
\* by returning the placeholder identifier.
C2_SimulateAlwaysReturnsPlaceholder ==
    (Executing /\ SimulateRequested /\ Finished)
    => (nSend = 0 /\ outcome = Return(TestTxHash))

\* C2 amended: a simulate-mode execution never signs or broadcasts; once
\* the build has succeeded it ends by returning the placeholder, and it
\* ends in a failure only when the build itself failed.
C2_SimulateNeverBroadcasts ==
    (Executing /\ SimulateRequested)
    => /\ nSign = 0 /\ nSend = 0
       /\ pc \notin {"signed", "submitted"}
       /\ Finished => IF HasBuilt THEN outcome = Return(TestTxHash)
                      ELSE outcome.kind = "raise"

C2_Witness ==
    /\ Executing /\ pc = "done" /\ ~test_mode /\ call.test_mode = <<TRUE>>
    /\ HasBuilt /\ outcome = Return(TestTxHash)

\* floor(a * (1 - s/100)) for a natural a and the exact value of a float
\* 0 <= s <= 100
ExactMinAmountOut(a, s) ==
    IF s.m = <<>> THEN a
    ELSE LET k == 0 - s.e
             x == BMul(a, BSub(BMulSmall(BShl(<<1>>, k), 100), s.m))
         IN  BDivModSmall(BShr(x, k), 100).q

\* amount * 10^decimals of the source token
ExactSmallestUnit(from_token, amount) ==
    BMul(BFromInt(amount),
         BPow10(IF from_token = "ETH" THEN 18 ELSE TokenDecimals[from_token]))

\* C3: the minimum output of every built transaction is
\* floor(amount_in_smallest_unit * (1 - slippage/100)).
C3_MinAmountOutIsFloor ==
    HasBuilt =>
        details.min_amount_out =
            ExactMinAmountOut(ExactSmallestUnit(details.from_token,
                                                details.amount),
                              details.slippage)

\* C4 as stated: whenever the balance of from_token is below the amount
\* the build fails with the insufficient-balance error and nothing is
\* signed or broadcast.
C4_ShortBalanceAlwaysInsufficient ==
    (Building /\ Finished /\ BalanceShort)
    => (outcome = Raise(ValueError(MsgInsufficient)) /\ NothingSubmitted)

\* C4 amended: whenever the balance of from_token is below the amount the
\* build fails and nothing is built, signed or broadcast, in either mode;
\* the failure is the insufficient-balance error when the destination
\* address is well-formed and the destination token is known (those checks
\* come first).
C4_ShortBalanceFails ==
    (Building /\ Finished /\ BalanceShort)
    => /\ outcome.kind = "raise"
       /\ NothingSubmitted
       /\ (DestinationWellFormed /\ KnownToken(call.to_token))
            => outcome = Raise(ValueError(MsgInsufficient))

C4_Witness ==
    /\ Executing /\ pc = "done" /\ BalanceShort
    /\ call.test_mode = <<FALSE>>
    /\ outcome = Raise(ValueError(MsgInsufficient))

UnknownTokenErrors ==
    {ValueError(MsgUnknownSource), ValueError(MsgUnknownDest)}

\* C5 as stated: whenever from_token or to_token is not in the registry
\* the build fails with the unknown-token error and builds nothing.
C5_UnknownTokenAlwaysReported ==
    (Building /\ Finished
        /\ (~KnownToken(call.from_token) \/ ~KnownToken(call.to_token)))
    => (outcome.kind = "raise" /\ outcome.error \in UnknownTokenErrors
        /\ NothingSubmitted)

\* C5 amended: whenever from_token or to_token is not in the registry the
\* build fails and nothing is built, signed or broadcast; the failure is
\* the unknown-token error when a wallet is loaded and the destination
\* address is well-formed (those checks come first).
C5_UnknownTokenFails ==
    (Building /\ Finished
        /\ (~KnownToken(call.from_token) \/ ~KnownToken(call.to_token)))
    => /\ outcome.kind = "raise"
       /\ NothingSubmitted
       /\ (account # None /\ DestinationWellFormed)
            => outcome.error \in UnknownTokenErrors

C5_Witness ==
    /\ Building /\ pc = "done" /\ account # None
    /\ KnownToken(call.from_token) /\ ~KnownToken(call.to_token)
    /\ call.balance < call.amount
    /\ outcome = Raise(ValueError(MsgUnknownDest))

\* the failure kind a caller reads off an error
FailureKind(err) ==
    CASE err.msg = MsgNoWallet -> "NoWallet"
      [] err.msg = MsgInvalidDest -> "InvalidAddress"
      [] err.msg \in {MsgUnknownSource, MsgUnknownDest} -> "UnknownToken"
      [] err.msg = MsgInsufficient -> "InsufficientBalance"
      [] err.msg = MsgUnsupportedDex -> "UnknownDex"
      [] OTHER -> "Other"

\* the build preconditions the running call violates
ViolatedPreconditions ==
    (IF account = None THEN {"NoWallet"} ELSE {})
    \cup (IF ~DestinationWellFormed THEN {"InvalidAddress"} ELSE {})
    \cup (IF ~KnownToken(call.from_token) \/ ~KnownToken(call.to_token)
          THEN {"UnknownToken"} ELSE {})
    \cup (IF BalanceShort THEN {"InsufficientBalance"} ELSE {})
    \cup (IF call.dex_name \notin DOMAIN DEX_ROUTER_ADDRESSES
          THEN {"UnknownDex"} ELSE {})

\* C6: a build that violates a precondition returns no transaction and
\* fails with the kind of a precondition it violates (of the one it
\* violates, when there is only one); the HTTP layer hands the message on.
C6_DistinctFailureKinds ==
    (Building /\ Finished /\ ViolatedPreconditions # {})
    => /\ outcome.kind = "raise"
       /\ ~HasBuilt
       /\ FailureKind(outcome.error) \in ViolatedPreconditions
       /\ pc = "responded" => response = Http500(outcome.error.msg)

C6_Witness ==
    /\ Executing /\ pc = "responded"
    /\ ViolatedPreconditions = {"UnknownDex"}
    /\ response = Http500(MsgUnsupportedDex)

\* C7: every built transaction carries a decision with
\* 0 <= slippage < 100, amount > 0 and from_token # to_token.
C7_BuiltDecisionIsValid ==
    HasBuilt =>
        /\ DblCmp(details.slippage, DblFromInt(100)) = -1
        /\ details.amount > 0
        /\ details.from_token # details.to_token


(***************************************************************************)
(* The advice pipeline (query_engine.py, llm_model.py, vector_store.py).   *)
(*                                                                         *)
(* A query is a sequence of words separated by blanks; a word is a run of  *)
(* letters or a decimal number.  What the regular expressions of           *)
(* parse_swap_query look at in a word is tabulated below.                  *)
(***************************************************************************)
NumberWords == {"2.5", "100"}
CueWords == {"swap", "from", "convert", "exchange", "Uniswap"}
TransitionWords == {"to", "for", "into"}
OneLetterWords == {"a"}
OtherWords == {"ETH", "eth", "USDC", "DAI", "hello", "How", "best"}
Vocabulary ==
    NumberWords \cup CueWords \cup TransitionWords \cup OneLetterWords
    \cup OtherWords

\* str.upper
Upper(w) ==
    CASE w = "swap" -> "SWAP" [] w = "from" -> "FROM"
      [] w = "convert" -> "CONVERT" [] w = "exchange" -> "EXCHANGE"
      [] w = "Uniswap" -> "UNISWAP" [] w = "to" -> "TO" [] w = "for" -> "FOR"
      [] w = "into" -> "INTO" [] w = "a" -> "A" [] w = "eth" -> "ETH"
      [] w = "hello" -> "HELLO" [] w = "How" -> "HOW" [] w = "best" -> "BEST"
      [] OTHER -> w

\* float(text) of a number word
NumberValue(w) ==
    CASE w = "2.5" -> DblDivInt(DblFromInt(25), 10)
      [] w = "100" -> DblFromInt(100)

IsNumber(w) == w \in NumberWords
IsAlpha(w) == w \notin NumberWords
\* the word ends with from, swap, convert or exchange, in any case
EndsWithCue(w) == w \in CueWords
IsTransition(w) == w \in TransitionWords

\* variant of DirectionalAt that keeps the case of the tickers
DirectionalAt_NoUpper(q, i) ==
    LET hasNum == i + 1 <= Len(q) /\ IsNumber(q[i + 1])
        j == IF hasNum THEN i + 2 ELSE i + 1
    IN  IF /\ EndsWithCue(q[i])
           /\ j + 2 <= Len(q)
           /\ IsAlpha(q[j]) /\ IsTransition(q[j + 1]) /\ IsAlpha(q[j + 2])
        THEN << [from_token |-> q[j], to_token |-> q[j + 2],
                 amount |-> IF hasNum THEN <<NumberValue(q[i + 1])>>
                            ELSE <<>>] >>
        ELSE <<>>

\* token_pattern matched with its verb cue at the end of word i:
\* <<>> or <<from, to, amount>>
DirectionalAt(q, i) ==
    LET hasNum == i + 1 <= Len(q) /\ IsNumber(q[i + 1])
        j == IF hasNum THEN i + 2 ELSE i + 1
    IN  IF /\ EndsWithCue(q[i])
           /\ j + 2 <= Len(q)
           /\ IsAlpha(q[j]) /\ IsTransition(q[j + 1]) /\ IsAlpha(q[j + 2])
        THEN << [from_token |-> Upper(q[j]), to_token |-> Upper(q[j + 2]),
                 amount |-> IF hasNum THEN <<NumberValue(q[i + 1])>>
                            ELSE <<>>] >>
        ELSE <<>>

\* re.search: the leftmost position at which the pattern matches
RECURSIVE DirectionalFrom(_, _)
DirectionalFrom(q, i) ==
    IF i > Len(q) THEN <<>>
    ELSE IF DirectionalAt(q, i) # <<>> THEN DirectionalAt(q, i)
    ELSE DirectionalFrom(q, i + 1)

\* re.findall(r'[A-Z]{2,}', query.upper())
RECURSIVE TickerTokens(_)
TickerTokens(q) ==
    IF q = <<>> THEN <<>>
    ELSE (IF IsAlpha(Head(q)) /\ Head(q) \notin OneLetterWords
          THEN <<Upper(Head(q))>> ELSE <<>>) \o TickerTokens(Tail(q))

\* re.search(amount_pattern, query): the first number that a word of
\* letters follows: <<>> or <<number word, letters>>
RECURSIVE AmountMatchFrom(_, _)
AmountMatchFrom(q, i) ==
    IF i + 1 > Len(q) THEN <<>>
    ELSE IF IsNumber(q[i]) /\ IsAlpha(q[i + 1]) THEN <<q[i], q[i + 1]>>
    ELSE AmountMatchFrom(q, i + 1)

NoIntent == [from_token |-> None, to_token |-> None, amount |-> <<>>]

\* variant of parse_swap_query that attaches the amount of the first
\* number/word pair whatever the word is
parse_swap_query_AlwaysAttach(q) ==
    LET token_match == DirectionalFrom(q, 1)
        tokens == TickerTokens(q)
        amount_match == AmountMatchFrom(q, 1)
    IN  IF token_match # <<>> THEN token_match[1]
        ELSE IF Len(tokens) >= 2 /\ amount_match # <<>>
        THEN [from_token |-> tokens[1], to_token |-> tokens[2],
              amount |-> <<NumberValue(amount_match[1])>>]
        ELSE IF Len(tokens) >= 2
        THEN [from_token |-> tokens[1], to_token |-> tokens[2], amount |-> <<>>]
        ELSE NoIntent

parse_swap_query(q) ==
    LET token_match == DirectionalFrom(q, 1)
        tokens == TickerTokens(q)
        amount_match == AmountMatchFrom(q, 1)
    IN  IF token_match # <<>> THEN token_match[1]
        ELSE IF Len(tokens) >= 2 /\ amount_match # <<>>
        THEN [from_token |-> tokens[1], to_token |-> tokens[2],
              amount |-> IF Upper(amount_match[2]) = tokens[1]
                         THEN <<NumberValue(amount_match[1])>> ELSE <<>>]
        ELSE IF Len(tokens) >= 2
        THEN [from_token |-> tokens[1], to_token |-> tokens[2], amount |-> <<>>]
        ELSE NoIntent

(***************************************************************************)
(* Text of the language model, as a sequence of tokens: "{" and "}" are    *)
(* the brace characters, "kv" a well-formed JSON member ("key": value),    *)
(* "," the comma between members and "w" any run of text without braces.   *)
(* The members of the block the prompt asks for are tokens of their own.   *)
(***************************************************************************)
MaxTextLen == 4
MaxErrorLen == 3
MaxProseLen == 2

\* JSON values: a string, an int or a float
JsonStr(x) == [type |-> "str", str |-> x]
JsonInt(n) == [type |-> "int", int |-> n]
JsonFloat(x) == [type |-> "float", float |-> x]

\* what json.loads reads in a member: its key and its value
Members ==
    ("kv" :> [key |-> "key", value |-> JsonStr("value")])
    @@ ("\"from_token\":\"ETH\"" :>
            [key |-> "from_token", value |-> JsonStr("ETH")])
    @@ ("\"to_token\":\"USDC\"" :>
            [key |-> "to_token", value |-> JsonStr("USDC")])
    @@ ("\"amount\":1" :> [key |-> "amount", value |-> JsonInt(1)])
    @@ ("\"dex\":\"Uniswap V3\"" :>
            [key |-> "dex", value |-> JsonStr("Uniswap V3")])
    @@ ("\"slippage\":0.5" :>
            [key |-> "slippage", value |-> JsonFloat(SlippageHalf)])

\* {"from_token":"ETH","to_token":"USDC","amount":1,"dex":"Uniswap V3",
\*  "slippage":0.5}
DecisionBlock ==
    <<"{", "\"from_token\":\"ETH\"", ",", "\"to_token\":\"USDC\"", ",",
      "\"amount\":1", ",", "\"dex\":\"Uniswap V3\"", ",",
      "\"slippage\":0.5", "}">>

TextAlphabet == {"w", "{", "}", ",", "kv"}
ErrorAlphabet == {"w", "{", "}", "kv"}

SeqsUpTo(S, n) == UNION {[1..k -> S] : k \in 0..n}

\* short texts of any shape, and texts that end with the requested block
LlmTexts ==
    SeqsUpTo(TextAlphabet, MaxTextLen)
    \cup {prose \o DecisionBlock : prose \in SeqsUpTo(TextAlphabet, MaxProseLen)}
LlmErrors == SeqsUpTo(ErrorAlphabet, MaxErrorLen)

\* "Unable to generate swap advice. Please try again later. Error: "
ApologyPrefix == <<"apology">>

\* generate_swap_advice: the streamed text, or the apology citing str(e)
generate_swap_advice(llm) ==
    IF llm.ok THEN llm.text ELSE ApologyPrefix \o llm.text

\* re.search(r'\{.*\}', text, re.DOTALL): from the first "{" to the last
\* "}" after it: <<>> or <<the matched block>>
JsonBlock(text) ==
    LET opens  == {i \in 1..Len(text) : text[i] = "{"}
        first  == CHOOSE i \in opens : \A k \in opens : i <= k
        closes == {i \in 1..Len(text) : text[i] = "}" /\ i > first}
        last   == CHOOSE i \in closes : \A k \in closes : i >= k
    IN  IF opens = {} THEN <<>>
        ELSE IF closes = {} THEN <<>>
        ELSE <<SubSeq(text, first, last)>>

\* the dict of a comma-separated member list (a repeated key keeps its
\* last value), or "malformed"
RECURSIVE JsonMembers(_)
JsonMembers(body) ==
    IF Len(body) = 1 /\ body[1] \in DOMAIN Members
    THEN [ok |-> TRUE,
          value |-> Members[body[1]].key :> Members[body[1]].value]
    ELSE IF Len(body) >= 3 /\ body[1] \in DOMAIN Members /\ body[2] = ","
    THEN LET rest == JsonMembers(SubSeq(body, 3, Len(body)))
         IN  [ok |-> rest.ok,
              value |-> IF rest.ok
                        THEN rest.value
                             @@ (Members[body[1]].key :> Members[body[1]].value)
                        ELSE <<>>]
    ELSE [ok |-> FALSE, value |-> <<>>]

\* json.loads of a block that starts with "{" and ends with "}": the
\* dict of the object, or a JSONDecodeError
json_loads(block) ==
    LET body == SubSeq(block, 2, Len(block) - 1)
    IN  IF body = <<>> THEN [ok |-> TRUE, value |-> <<>>]
        ELSE JsonMembers(body)

JSONDecodeError == [type |-> "JSONDecodeError", msg |-> "Expecting value"]
PineconeError == [type |-> "Exception", msg |-> "Pinecone connection error"]

QueryInputs ==
    { <<"swap", "2.5", "ETH", "to", "USDC">>,
      <<"best", "from", "DAI", "to", "ETH">>,
      <<"ETH", "USDC", "100">>,
      <<"100", "eth", "USDC">>,
      <<"hello">>,
      <<"a", "2.5", "ETH">>,
      <<>> }
\* the similarity index cannot be reached, has no match, or has matches
HistoricalOutcomes == {"unavailable", "empty", "matches"}
\* the quote request fails, or answers with a quote
QuoteOutcomes == {"unavailable", "quote"}
LlmOutcomes ==
    {[ok |-> TRUE, text |-> t] : t \in LlmTexts}
    \cup {[ok |-> FALSE, text |-> e] : e \in LlmErrors}

AdviceReturn(advice, decision) ==
    [kind |-> "return", advice |-> advice, swap_details |-> decision,
     error |-> NoError]
AdviceRaise(err) ==
    [kind |-> "raise", advice |-> <<>>, swap_details |-> <<>>, error |-> err]

\* variant of get_best_swap_path without the fallback of lines 150-151
get_best_swap_path_NoFallback(query, historical, quote, llm) ==
    LET llm_advice == generate_swap_advice(llm)
        json_match == JsonBlock(llm_advice)
        parsed == json_loads(json_match[1])
    IN  IF historical = "unavailable" THEN AdviceRaise(PineconeError)
        ELSE IF json_match = <<>> THEN AdviceReturn(llm_advice, <<>>)
        ELSE IF parsed.ok THEN AdviceReturn(llm_advice, <<parsed.value>>)
        ELSE AdviceRaise(JSONDecodeError)

\* a returned decision: <<>> is None, <<d>> is the dict d
get_best_swap_path(query, historical, quote, llm) ==
    LET intent == parse_swap_query(query)
        llm_advice == generate_swap_advice(llm)
        json_match == JsonBlock(llm_advice)
        parsed == json_loads(json_match[1])
    IN  IF intent.from_token = None \/ intent.to_token = None
        THEN AdviceReturn(llm_advice, <<>>)
        ELSE IF historical = "unavailable" THEN AdviceRaise(PineconeError)
        ELSE IF json_match = <<>> THEN AdviceReturn(llm_advice, <<>>)
        ELSE IF parsed.ok THEN AdviceReturn(llm_advice, <<parsed.value>>)
        ELSE AdviceRaise(JSONDecodeError)

\* which collaborators get_best_swap_path consults for a query
HistoricalConsulted(query) == parse_swap_query(query).from_token # None
QuoteConsulted(query, historical) ==
    /\ HistoricalConsulted(query)
    /\ historical # "unavailable"
    /\ parse_swap_query(query).amount # <<>>
LlmConsulted(query, historical) ==
    ~HistoricalConsulted(query) \/ historical # "unavailable"

GetBestSwapPath ==
    /\ pc = "idle"
    /\ \E q \in QueryInputs, h \in HistoricalOutcomes, o \in QuoteOutcomes,
          l \in LlmOutcomes :
        /\ adv_call' =
             [op |-> "get_best_swap_path", query |-> q,
              historical |-> IF HistoricalConsulted(q) THEN h ELSE None,
              quote |-> IF QuoteConsulted(q, h) THEN o ELSE None,
              llm |-> IF LlmConsulted(q, h) THEN l
                      ELSE NoAdviceCall.llm]
        /\ adv_result' = get_best_swap_path(q, h, o, l)
    /\ pc' = "done"
    /\ UNCHANGED <<execVars, fnVars>>

AdviceDone ==
    /\ pc = "done"
    /\ adv_call.op = "get_best_swap_path"
    /\ pc' = "idle"
    /\ adv_call' = NoAdviceCall
    /\ adv_result' = NoAdviceResult
    /\ UNCHANGED <<execVars, fnVars>>

NextAdvice == GetBestSwapPath \/ AdviceDone

SpecAdvice == Init /\ [][NextAdvice]_vars


(***************************************************************************)
(* Properties of the advice pipeline.                                      *)
(***************************************************************************)
AdviceFinished == pc = "done" /\ adv_call.op = "get_best_swap_path"
LlmWasConsulted == LlmConsulted(adv_call.query, adv_call.historical)
LlmTextMalformedOrBare ==
    \/ JsonBlock(adv_call.llm.text) = <<>>
    \/ ~json_loads(JsonBlock(adv_call.llm.text)[1]).ok

\* C8: when the text of the language model has no JSON-like block, or a
\* block that is not well-formed, get_best_swap_path returns the raw text
\* with decision None and does not raise.
C8_MalformedBlockGivesNone ==
    (AdviceFinished /\ LlmWasConsulted /\ adv_call.llm.ok
        /\ LlmTextMalformedOrBare)
    => adv_result = AdviceReturn(adv_call.llm.text, <<>>)

\* C9: when the text-completion call fails, whatever the error message,
\* the result is the apology citing the error, with decision None, and
\* nothing is raised.
C9_LlmFailureGivesApology ==
    (AdviceFinished /\ LlmWasConsulted /\ ~adv_call.llm.ok)
    => adv_result = AdviceReturn(ApologyPrefix \o adv_call.llm.text, <<>>)

\* C10: whichever of the historical lookup, the live quote and the
\* language model fail, get_best_swap_path returns advice text.
C10_CollaboratorFailuresAbsorbed ==
    (AdviceFinished
        /\ (adv_call.historical = "unavailable"
            \/ adv_call.quote = "unavailable" \/ ~adv_call.llm.ok))
    => adv_result.kind = "return"

\* the text ends with the requested block
EndsWithDecisionBlock(text) ==
    /\ Len(text) >= Len(DecisionBlock)
    /\ SubSeq(text, Len(text) - Len(DecisionBlock) + 1, Len(text))
         = DecisionBlock

\* the five field values written in the block
ExpectedDecision ==
    [from_token |-> JsonStr("ETH"), to_token |-> JsonStr("USDC"),
     amount |-> JsonInt(1), dex |-> JsonStr("Uniswap V3"),
     slippage |-> JsonFloat(DblDivInt(DblFromInt(5), 10))]

\* C11: when the text of the language model ends with the block
\* {"from_token":"ETH","to_token":"USDC","amount":1,"dex":"Uniswap V3",
\* "slippage":0.5}, whatever prose precedes it, the decision returned for
\* a query that names its tokens has exactly those five field values.
C11_DecisionBlockRoundTrip ==
    (AdviceFinished /\ adv_call.llm.ok
        /\ adv_call.historical \in {"empty", "matches"}
        /\ EndsWithDecisionBlock(adv_call.llm.text))
    => adv_result = AdviceReturn(adv_call.llm.text, <<ExpectedDecision>>)


(***************************************************************************)
(* Properties of the outcome of a submitted transaction.                   *)
(***************************************************************************)
RevertedResponse == Http200(FALSE, None, "Swap failed or was cancelled.")

\* C12: a submitted swap whose receipt has failure status ends by
\* returning None (HTTP: success false), and only such a swap does: a
\* rejected broadcast raises (HTTP 500) and a receipt with success status
\* returns the transaction hash (HTTP: success true).
C12_RevertedReportedDistinctly ==
    (Executing /\ Finished)
    => /\ call.receipt = "status0" <=> outcome = Return(None)
       /\ call.receipt = "rejected" => outcome.kind = "raise"
       /\ call.receipt = "status1" => outcome = Return(RealTxHash)
       /\ pc = "responded" =>
            /\ call.receipt = "status0" <=> response = RevertedResponse
            /\ call.receipt = "rejected" => response.status = 500
            /\ call.receipt = "status1" =>
                    (response.status = 200 /\ response.success)

C12_Witness ==
    /\ Executing /\ pc = "responded" /\ call.receipt = "status0"
    /\ nSend = 1 /\ response = RevertedResponse

\* C13: when the wait for the receipt of a swap or of an approval runs
\* out, the caller is not given a failure: nothing is raised and the HTTP
\* layer does not answer with an error.
C13_TimeoutReportedIndeterminate ==
    (call.op \in {"execute_swap", "approve_token"} /\ Finished
        /\ call.receipt = "timeout")
    => /\ outcome.kind # "raise"
       /\ pc = "responded" => response.status # 500

\* C14: one execute_swap call broadcasts at most once; a rejected
\* broadcast ends the call at once with the node's error.
C14_BroadcastAtMostOnce ==
    Executing
    => /\ nSend <= 1
       /\ call.receipt = "rejected" =>
            /\ nSend = 1
            /\ Finished
            /\ outcome = Raise(ValueError(MsgRpcRejected))
            /\ pc = "responded" => response = Http500(MsgRpcRejected)

C14_Witness ==
    /\ Executing /\ pc = "responded" /\ call.receipt = "rejected"
    /\ nSend = 1 /\ response = Http500(MsgRpcRejected)


(***************************************************************************)
(* The historical path ranker (vector_store.get_optimal_swap_paths).       *)
(* direct_swaps is what retrieve_similar_swaps gave: a list of swaps with  *)
(* their path, dex and swapRate.  Rates are whole numbers here, so their   *)
(* sum is exact and the average is one float division.                     *)
(***************************************************************************)
MaxSwaps == 4

\* the second path has a token whose symbol holds the separator of the key
PathInputs == {"ETH -> USDC", "ETH -> USDC on Uniswap V2"}
RankDexInputs == {"Uniswap V2", "SushiSwap"}
RateInputs == {0, 2, 3}

SwapInputs ==
    [path : PathInputs, dex : RankDexInputs, swapRate : RateInputs]
SwapLists == SeqsUpTo(SwapInputs, MaxSwaps)

\* variant of PathKey that leaves the DEX out of the key
PathKey_PathOnly(swap) == swap.path

\* f"{path} on {dex}"
PathKey(swap) == swap.path \o " on " \o swap.dex

\* lines 223-232: the entry a key gets when it is first seen
NewStat(swap) ==
    [key |-> PathKey(swap), path |-> swap.path, dex |-> swap.dex,
     count |-> 0, rates |-> <<>>, bestRate |-> 0, avgRate |-> DblZero]

\* variant: only swaps with a positive rate are counted
UpdateStat_CountRated(stats, rate) ==
    [stats EXCEPT
        !.count = IF rate > 0 THEN @ + 1 ELSE @,
        !.rates = IF rate > 0 THEN Append(@, rate) ELSE @,
        !.bestRate = IF rate > 0 /\ rate > @ THEN rate ELSE @]

\* lines 234-241: one more swap for the entry stats
UpdateStat(stats, rate) ==
    [stats EXCEPT
        !.count = @ + 1,
        !.rates = IF rate > 0 THEN Append(@, rate) ELSE @,
        !.bestRate = IF rate > 0 /\ rate > @ THEN rate ELSE @]

\* position of key in path_stats (a dict keeps insertion order), or 0
KeyIndex(path_stats, key) ==
    IF \E i \in DOMAIN path_stats : path_stats[i].key = key
    THEN CHOOSE i \in DOMAIN path_stats : path_stats[i].key = key
    ELSE 0

AddSwapAt(path_stats, swap, i) ==
    IF i = 0 THEN Append(path_stats, UpdateStat(NewStat(swap), swap.swapRate))
    ELSE [path_stats EXCEPT ![i] = UpdateStat(@, swap.swapRate)]

\* lines 217-243: the grouping loop, from swap i on
RECURSIVE GroupSwaps(_, _, _)
GroupSwaps(direct_swaps, i, path_stats) ==
    IF i > Len(direct_swaps) THEN path_stats
    ELSE GroupSwaps(direct_swaps, i + 1,
                    AddSwapAt(path_stats, direct_swaps[i],
                              KeyIndex(path_stats, PathKey(direct_swaps[i]))))

RECURSIVE SumSeq(_)
SumSeq(xs) == IF xs = <<>> THEN 0 ELSE Head(xs) + SumSeq(Tail(xs))

\* total / n in floats, for the totals and lengths a rate list can have
MaxRate == CHOOSE r \in RateInputs : \A q \in RateInputs : r >= q
Quotients ==
    [total \in 0..(MaxRate * MaxSwaps), n \in 1..MaxSwaps |->
        DblDivInt(DblFromInt(total), n)]

\* lines 246-248: sum(rates) / len(rates) when there are rates
WithAvgRate(stats) ==
    IF stats.rates # <<>>
    THEN [stats EXCEPT
            !.avgRate = Quotients[SumSeq(stats.rates), Len(stats.rates)]]
    ELSE stats

\* tuples compared: by the first components (c is how they compare), then
\* by the counts
TupleCmp(c, a, b) ==
    IF c # 0 THEN c
    ELSE IF a.count < b.count THEN -1
    ELSE IF a.count > b.count THEN 1
    ELSE 0

\* variant: the count does not take part in the order
SortKeyCmp_RateOnly(a, b) == DblCmp(a.avgRate, b.avgRate)

\* the tuples (avgRate, count) compared: -1, 0, 1
SortKeyCmp(a, b) == TupleCmp(DblCmp(a.avgRate, b.avgRate), a, b)

\* x put behind every entry of the sorted list that is not below it
RECURSIVE InsertDescending(_, _)
InsertDescending(sorted, x) ==
    IF sorted = <<>> THEN <<x>>
    ELSE IF SortKeyCmp(Head(sorted), x) >= 0
    THEN <<Head(sorted)>> \o InsertDescending(Tail(sorted), x)
    ELSE <<x>> \o sorted

\* sorted(..., key=(avgRate, count), reverse=True): a stable sort, entries
\* with equal keys keep their order
RECURSIVE SortDescending(_, _, _)
SortDescending(xs, i, sorted) ==
    IF i > Len(xs) THEN sorted
    ELSE SortDescending(xs, i + 1, InsertDescending(sorted, xs[i]))

AvgRated(path_stats) ==
    [i \in DOMAIN path_stats |-> WithAvgRate(path_stats[i])]

get_optimal_swap_paths(direct_swaps) ==
    SortDescending(AvgRated(GroupSwaps(direct_swaps, 1, <<>>)), 1, <<>>)

GetOptimalSwapPaths ==
    /\ pc = "idle"
    /\ \E direct_swaps \in SwapLists :
        /\ fn_call' = [op |-> "get_optimal_swap_paths",
                       args |-> direct_swaps]
        /\ fn_result' = get_optimal_swap_paths(direct_swaps)
    /\ pc' = "done"
    /\ UNCHANGED <<execVars, adv_call, adv_result, fetch>>

\* the caller has the result of the function
FnReturn ==
    /\ pc = "done"
    /\ fn_call.op # None
    /\ pc' = "idle"
    /\ fn_call' = NoFnCall
    /\ fn_result' = NoFnResult
    /\ UNCHANGED <<execVars, adv_call, adv_result, fetch>>

NextRanker == GetOptimalSwapPaths \/ FnReturn

\* the ranker does not touch the executor: the process starts without a
\* wallet key in its environment
InitRanker == Init /\ env_private_key = None

SpecRanker == InitRanker /\ [][NextRanker]_vars

(***************************************************************************)
(* Properties of the ranker.                                               *)
(***************************************************************************)
Ranked == fn_call.op = "get_optimal_swap_paths"

\* the pair (avg_rate, count) of a is not below that of b
PairNotBelow(a, b) ==
    \/ DblCmp(a.avgRate, b.avgRate) = 1
    \/ DblCmp(a.avgRate, b.avgRate) = 0 /\ a.count >= b.count

\* C15: the ranker's output is sorted non-increasing by (avg_rate, count):
\* the higher average comes first and, among equal averages, the higher
\* count.
C15_SortedByAvgRateThenCount ==
    Ranked =>
        \A i \in 1..(Len(fn_result) - 1) :
            PairNotBelow(fn_result[i], fn_result[i + 1])

\* A(avg 2, count 1), B(avg 2, count 2), C(avg 3, count 1) come out C, B, A
C15_Witness ==
    /\ Ranked /\ Len(fn_result) = 3
    /\ fn_call.args[1].path # fn_result[1].path
    /\ fn_result[1].avgRate = DblFromInt(3) /\ fn_result[1].count = 1
    /\ fn_result[2].avgRate = DblFromInt(2) /\ fn_result[2].count = 2
    /\ fn_result[3].avgRate = DblFromInt(2) /\ fn_result[3].count = 1
    /\ fn_call.args[1].swapRate = 2 /\ PathKey(fn_call.args[1]) = fn_result[3].key

\* the historical records of one (path, dex)
Contributing(path, dex) ==
    {i \in DOMAIN fn_call.args :
        fn_call.args[i].path = path /\ fn_call.args[i].dex = dex}

\* the positive rates among the historical records of one (path, dex),
\* in the order of the records
RatesOf(path, dex) ==
    LET Rated(swap) ==
            swap.path = path /\ swap.dex = dex /\ swap.swapRate > 0
        rated == SelectSeq(fn_call.args, Rated)
    IN  [i \in DOMAIN rated |-> rated[i].swapRate]

\* C16: every returned entry has avg_rate = mean(rates), or 0 when rates
\* is empty, rates being the positive rates of the records of its
\* (path, dex), and its count is the number of those records; there is
\* one entry for each (path, dex) that has records.
C16_AvgAndCountPerKey ==
    Ranked =>
        /\ \A i \in DOMAIN fn_result :
            /\ fn_result[i].count
                 = Cardinality(Contributing(fn_result[i].path,
                                            fn_result[i].dex))
            /\ fn_result[i].rates
                 = RatesOf(fn_result[i].path, fn_result[i].dex)
            /\ fn_result[i].avgRate =
                 IF fn_result[i].rates = <<>> THEN DblZero
                 ELSE Quotients[SumSeq(fn_result[i].rates),
                                Len(fn_result[i].rates)]
            /\ \A j \in DOMAIN fn_result :
                 (fn_result[j].path = fn_result[i].path
                    /\ fn_result[j].dex = fn_result[i].dex) => j = i
        /\ \A k \in DOMAIN fn_call.args :
            \E i \in DOMAIN fn_result :
                /\ fn_result[i].path = fn_call.args[k].path
                /\ fn_result[i].dex = fn_call.args[k].dex

\* an entry whose records are not all rated: count 3, rates of two
C16_Witness ==
    /\ Ranked
    /\ \E i \in DOMAIN fn_result :
        /\ fn_result[i].count = 3 /\ Len(fn_result[i].rates) = 2
        /\ SumSeq(fn_result[i].rates) = 5
        /\ fn_result[i].avgRate = DblDivInt(DblFromInt(5), 2)


(***************************************************************************)
(* parse_swap_query called on its own, on every query of at most           *)
(* MaxQueryLen words of a small vocabulary.                                *)
(***************************************************************************)
MaxQueryLen == 5
ParseWords == {"swap", "from", "2.5", "100", "ETH", "eth", "to", "USDC", "a"}
ParseQueries == SeqsUpTo(ParseWords, MaxQueryLen)

ParseSwapQuery ==
    /\ pc = "idle"
    /\ \E query \in ParseQueries :
        /\ fn_call' = [op |-> "parse_swap_query", args |-> query]
        /\ fn_result' = parse_swap_query(query)
    /\ pc' = "done"
    /\ UNCHANGED <<execVars, adv_call, adv_result, fetch>>

NextParse == ParseSwapQuery \/ FnReturn

SpecParse == InitRanker /\ [][NextParse]_vars

(***************************************************************************)
(* Properties of the query parser.                                         *)
(***************************************************************************)
Parsed == fn_call.op = "parse_swap_query"

\* the words from position p + 1 on are a directional phrase: a verb cue,
\* an optional number, a source ticker, a transition cue, a destination
\* ticker; n is 1 when the number is there and 0 when it is not
DirectionalPhraseAt(q, p, n) ==
    /\ p + n + 4 <= Len(q)
    /\ EndsWithCue(q[p + 1])
    /\ n = 1 => IsNumber(q[p + 2])
    /\ IsAlpha(q[p + n + 2])
    /\ IsTransition(q[p + n + 3])
    /\ IsAlpha(q[p + n + 4])

\* no verb cue before the phrase
NoCueBefore(q, p) == \A k \in 1..p : ~EndsWithCue(q[k])

PhraseIntent(q, p, n) ==
    [from_token |-> Upper(q[p + n + 2]), to_token |-> Upper(q[p + n + 4]),
     amount |-> IF n = 1 THEN <<NumberValue(q[p + 2])>> ELSE <<>>]

\* C17: for text whose first verb cue opens a directional phrase (cue,
\* optional number, source ticker, transition cue, destination ticker),
\* parse_swap_query returns the upper-cased source, the upper-cased
\* destination and the number, or None when no number is given.
C17_DirectionalIntent ==
    Parsed =>
        \A p \in 0..Len(fn_call.args), n \in {0, 1} :
            (NoCueBefore(fn_call.args, p)
                /\ DirectionalPhraseAt(fn_call.args, p, n))
            => fn_result = PhraseIntent(fn_call.args, p, n)

\* 'swap 2.5 ETH to USDC' gives (ETH, USDC, 2.5)
C17_Witness ==
    /\ Parsed
    /\ fn_call.args = <<"swap", "2.5", "ETH", "to", "USDC">>
    /\ fn_result = [from_token |-> "ETH", to_token |-> "USDC",
                    amount |-> <<DblDivInt(DblFromInt(5), 2)>>]

\* the ticker-like tokens of a text, each kept at its first appearance
RECURSIVE DistinctInOrder(_, _)
DistinctInOrder(tokens, seen) ==
    IF tokens = <<>> THEN seen
    ELSE DistinctInOrder(Tail(tokens),
                         IF \E k \in DOMAIN seen : seen[k] = Head(tokens)
                         THEN seen ELSE Append(seen, Head(tokens)))

DistinctTickers(q) == DistinctInOrder(TickerTokens(q), <<>>)
NoDirectionalCue(q) == \A k \in DOMAIN q : ~EndsWithCue(q[k])

\* C18: for text with no directional cue and at least two distinct
\* ticker-like tokens, parse_swap_query returns the first two distinct
\* tokens in order of first appearance, and from_token differs from
\* to_token.
C18_FirstTwoDistinctTokens ==
    (Parsed /\ NoDirectionalCue(fn_call.args)
        /\ Len(DistinctTickers(fn_call.args)) >= 2)
    => /\ fn_result.from_token = DistinctTickers(fn_call.args)[1]
       /\ fn_result.to_token = DistinctTickers(fn_call.args)[2]
       /\ fn_result.from_token # fn_result.to_token

\* the number of ticker-like tokens of a text: its words of two or more
\* letters
TickerLikeCount(q) ==
    Cardinality({k \in DOMAIN q : IsAlpha(q[k]) /\ q[k] \notin OneLetterWords})

\* text with fewer than two ticker-like tokens parses to (None, None, None)
FewTickersNoIntent ==
    (Parsed /\ TickerLikeCount(fn_call.args) < 2) => fn_result = NoIntent

\* C19: when the text has fewer than two ticker-like tokens,
\* parse_swap_query yields (None, None, None) and get_best_swap_path
\* returns the generic advice of the language model with decision None,
\* without raising and without consulting the ranker or the quote fetcher.
C19_FewTickersFallBack ==
    (AdviceFinished /\ TickerLikeCount(adv_call.query) < 2)
    => /\ parse_swap_query(adv_call.query) = NoIntent
       /\ adv_result
            = AdviceReturn(generate_swap_advice(adv_call.llm), <<>>)
       /\ adv_call.historical = None
       /\ adv_call.quote = None

\* '2.5 ETH' with a one-letter word: one ticker-like token, the language
\* model fails and its apology is returned with decision None
C19_Witness ==
    /\ AdviceFinished
    /\ adv_call.query = <<"a", "2.5", "ETH">>
    /\ ~adv_call.llm.ok
    /\ adv_result.kind = "return"
    /\ adv_result.advice = ApologyPrefix \o adv_call.llm.text
    /\ adv_result.swap_details = <<>>


(***************************************************************************)
(* Properties of loading a wallet.                                         *)
(***************************************************************************)
WalletLoadFinished == pc = "done" /\ call.op = "load_wallet"
KeyIsValid(k) == k \in DOMAIN KeyAddress

\* C20: load_wallet returns the address of the key when the key is valid
\* and fails (raises, or returns no address and loads nothing) when it is
\* not; POST /connect-wallet answers success only when the wallet of the
\* given key is loaded.
C20_LoadWalletAddressOrFailure ==
    /\ WalletLoadFinished =>
          IF KeyIsValid(call.private_key)
          THEN outcome = Return(KeyAddress[call.private_key])
          ELSE /\ outcome.kind = "raise" \/ outcome.value = None
               /\ account # call.private_key
    /\ (pc = "responded" /\ call.op = "connect_wallet" /\ response.success)
          => /\ KeyIsValid(call.private_key)
             /\ account = call.private_key
             /\ address = KeyAddress[call.private_key]


(***************************************************************************)
(* The chain-data fetch (data_fetcher.make_alchemy_request).  One step of  *)
(* the model is one attempt of the loop: the request, what came back and   *)
(* the sleep that follows it.                                              *)
(***************************************************************************)
max_retries == 3
\* the waits of lines 209 and 223, in seconds
RateLimitWait(attempt) == (2 ^ attempt) * 2
FailureWait == 2

\* what an attempt meets: a JSON-RPC result, a JSON-RPC error that is not
\* about the rate limit, a JSON-RPC error about the rate limit, or a
\* RequestException (no connection, an HTTP error status)
AttemptOutcomes == {"result", "api_error", "rate_limit", "request_failure"}
MethodInputs ==
    {"eth_getBalance", "eth_getCode", "alchemy_getTokenBalances",
     "alchemy_getTokenMetadata", "alchemy_getAssetTransfers"}

\* variant of AttemptStep that retries after a JSON-RPC error of any kind
AttemptStep_RetryApiError(attempt, o) ==
    CASE o = "result" ->
           [wait |-> <<>>, returns |-> <<"response_json">>]
      [] o \in {"api_error", "rate_limit"} ->
           [wait |-> <<RateLimitWait(attempt)>>,
            returns |-> IF attempt + 1 < max_retries THEN <<>> ELSE <<None>>]
      [] o = "request_failure" ->
           IF attempt < max_retries - 1
           THEN [wait |-> <<FailureWait>>, returns |-> <<>>]
           ELSE [wait |-> <<>>, returns |-> <<None>>]

\* the body of the loop for one attempt: the sleep it makes (<<>> when it
\* makes none) and what the function returns (<<>> when the loop goes on;
\* after the last attempt the loop ends and line 227 returns None)
AttemptStep(attempt, o) ==
    CASE o = "result" ->
           [wait |-> <<>>, returns |-> <<"response_json">>]
      [] o = "api_error" ->
           [wait |-> <<>>, returns |-> <<None>>]
      [] o = "rate_limit" ->
           [wait |-> <<RateLimitWait(attempt)>>,
            returns |-> IF attempt + 1 < max_retries THEN <<>> ELSE <<None>>]
      [] o = "request_failure" ->
           IF attempt < max_retries - 1
           THEN [wait |-> <<FailureWait>>, returns |-> <<>>]
           ELSE [wait |-> <<>>, returns |-> <<None>>]

Slept(attempt, o, wait) ==
    IF wait = <<>> THEN <<>>
    ELSE <<[attempt |-> attempt, after |-> o, seconds |-> wait[1]]>>

MakeAlchemyRequest ==
    /\ pc = "idle"
    /\ \E method \in MethodInputs :
        fn_call' = [op |-> "make_alchemy_request", args |-> <<method>>]
    /\ fetch' = NoFetch
    /\ pc' = "fetching"
    /\ UNCHANGED <<execVars, adv_call, adv_result, fn_result>>

Attempted(o, r) ==
    /\ fetch' = [attempt  |-> IF r.returns = <<>> THEN fetch.attempt + 1
                              ELSE fetch.attempt,
                 outcomes |-> Append(fetch.outcomes, o),
                 waits    |-> fetch.waits \o Slept(fetch.attempt, o, r.wait)]
    /\ IF r.returns = <<>>
       THEN pc' = "fetching" /\ UNCHANGED fn_result
       ELSE pc' = "done" /\ fn_result' = r.returns[1]

AlchemyAttempt ==
    /\ pc = "fetching"
    /\ \E o \in AttemptOutcomes : Attempted(o, AttemptStep(fetch.attempt, o))
    /\ UNCHANGED <<execVars, adv_call, adv_result, fn_call>>

FetchReturn ==
    /\ pc = "done"
    /\ fn_call.op = "make_alchemy_request"
    /\ pc' = "idle"
    /\ fn_call' = NoFnCall
    /\ fn_result' = NoFnResult
    /\ fetch' = NoFetch
    /\ UNCHANGED <<execVars, adv_call, adv_result>>

NextFetch == MakeAlchemyRequest \/ AlchemyAttempt \/ FetchReturn

\* every attempt comes to an end
SpecFetch == InitRanker /\ [][NextFetch]_vars /\ WF_vars(AlchemyAttempt)


(***************************************************************************)
(* Properties of the chain-data fetch.                                     *)
(***************************************************************************)
Fetching == fn_call.op = "make_alchemy_request"
Retryable == {"request_failure", "rate_limit"}

AttemptsBounded ==
    Fetching =>
        /\ Len(fetch.outcomes) <= 3
        /\ \A i \in 1..(Len(fetch.outcomes) - 1) :
              fetch.outcomes[i] \in Retryable
        /\ Len(fetch.outcomes) = 3 => pc = "done"
        /\ pc = "done" =>
              /\ fn_result \in {"response_json", None}
              /\ fn_result = "response_json"
                   <=> fetch.outcomes[Len(fetch.outcomes)] = "result"

\* C21: a call of make_alchemy_request makes at most 3 attempts, makes
\* another attempt only after a request failure or a rate-limit response,
\* and always comes to an end, returning the response or None; after the
\* third attempt it has returned.
C21_BoundedAttemptsAndTermination ==
    []AttemptsBounded /\ ((pc = "fetching") ~> (pc = "done"))

\* three attempts, none of them answered: None
C21_Witness ==
    /\ Fetching /\ pc = "done"
    /\ fetch.outcomes = <<"request_failure", "rate_limit", "request_failure">>
    /\ fn_result = None

\* C22: the wait after a request failure at attempt k (from 0) is
\* 2 * 2^k seconds (2 s, then 4 s), and the wait after a rate-limit
\* response is longer than the wait after a request failure at the same
\* attempt.
C22_ExponentialBackoff ==
    Fetching =>
        \A i \in DOMAIN fetch.waits :
            /\ fetch.waits[i].after = "request_failure"
                 => fetch.waits[i].seconds = 2 * (2 ^ fetch.waits[i].attempt)
            /\ (fetch.waits[i].after = "rate_limit"
                   /\ fetch.waits[i].attempt < max_retries - 1)
                 => fetch.waits[i].seconds > FailureWait


(***************************************************************************)
(* Properties of the built transaction.                                    *)
(***************************************************************************)
BuildFailed ==
    /\ pc = "done" /\ call.op = "generate_swap_transaction"
    /\ outcome.kind = "raise"
CallPreconditionError ==
    BuildPreconditionError(account, address, call.from_token, call.to_token,
                           call.amount, call.dex_name,
                           call.destination_address, call.balance)

\* C23: in every router call variant the gas limit of the built
\* transaction is floor(1.2 * estimate) when the dry run succeeds and
\* 300000 when it fails, and the build fails only on a precondition,
\* never because of the dry run.
C23_GasLimitMarginOrFallback ==
    /\ HasBuilt =>
          swap_data[1].tx_data.gas
            = IF call.gas_estimate = <<>> THEN 300000
              ELSE (12 * call.gas_estimate[1]) \div 10
    /\ BuildFailed =>
          /\ CallPreconditionError # NoError
          /\ outcome.error = CallPreconditionError

\* token to native with a failed dry run: built with 300000
C23_Witness ==
    /\ HasBuilt
    /\ swap_data[1].tx_data.fn = "swapExactTokensForETH"
    /\ call.gas_estimate = <<>>
    /\ swap_data[1].tx_data.gas = 300000

tx_data == swap_data[1].tx_data
IsNative(t) == t = "ETH"
CallAmountInWei == AmountInWei(call.from_token, call.amount)

\* C24: the router entry point follows from the endpoint types alone:
\* native to token is swapExactETHForTokens with the input amount as the
\* transaction value, token to native is swapExactTokensForETH and token
\* to token is swapExactTokensForTokens, both with the input amount as
\* first argument and no value; every pair of endpoints the build accepts
\* has the variant of its types.
C24_EntryPointMatchesEndpointTypes ==
    HasBuilt =>
        IF IsNative(call.from_token) /\ ~IsNative(call.to_token)
        THEN /\ tx_data.fn = "swapExactETHForTokens"
             /\ tx_data.value = CallAmountInWei
             /\ Len(tx_data.args) = 3
        ELSE IF ~IsNative(call.from_token) /\ IsNative(call.to_token)
        THEN /\ tx_data.fn = "swapExactTokensForETH"
             /\ tx_data.value = <<>>
             /\ tx_data.args[1] = CallAmountInWei
        ELSE IF ~IsNative(call.from_token) /\ ~IsNative(call.to_token)
        THEN /\ tx_data.fn = "swapExactTokensForTokens"
             /\ tx_data.value = <<>>
             /\ tx_data.args[1] = CallAmountInWei
        ELSE FALSE

\* the address a router knows an endpoint by
WrappedAddress(t) ==
    IF t = "ETH" THEN TOKEN_ADDRESSES["WETH"] ELSE TOKEN_ADDRESSES[t]

\* C25: the router path of every built transaction has exactly two
\* addresses, source then destination, an ETH endpoint being replaced by
\* the WETH address and every other endpoint being its registry address;
\* the native-asset placeholder address is never in a router path.
C25_PathIsTwoWrappedAddresses ==
    HasBuilt =>
        /\ Len(details.path) = 2
        /\ details.path[1] = WrappedAddress(call.from_token)
        /\ details.path[2] = WrappedAddress(call.to_token)
        /\ \A i \in DOMAIN details.path :
              details.path[i] # TOKEN_ADDRESSES["ETH"]
        /\ tx_data.args[Len(tx_data.args) - 1] = details.path

\* a native source: the path starts with WETH
C25_Witness ==
    /\ HasBuilt
    /\ call.from_token = "ETH" /\ call.to_token = "USDC"
    /\ details.path = <<"0xC02a", "0xA0b8">>


(***************************************************************************)
(* Properties of the amount of a non-directional parse.                    *)
(***************************************************************************)
\* the parse took the non-directional branch and found two tokens
NonDirectionalParse ==
    /\ Parsed
    /\ DirectionalFrom(fn_call.args, 1) = <<>>
    /\ Len(TickerTokens(fn_call.args)) >= 2

FirstTicker(q) == TickerTokens(q)[1]
NumberAt(q) == {k \in DOMAIN q : IsNumber(q[k])}
\* the numbers that a word of letters follows
PairAt(q) == {k \in NumberAt(q) : k + 1 <= Len(q) /\ IsAlpha(q[k + 1])}
First(S) == CHOOSE k \in S : \A j \in S : k <= j

\* the amount, given the position k of the number that decides
AmountDecidedAt(q, k) ==
    IF k + 1 <= Len(q) /\ IsAlpha(q[k + 1]) /\ Upper(q[k + 1]) = FirstTicker(q)
    THEN <<NumberValue(q[k])>> ELSE <<>>

\* C26: in the non-directional parse the amount is attached only if the
\* ticker next to the first number of the text is the first-appearing
\* ticker; otherwise the amount is None, later numbers not being
\* considered.
C26_AmountOfFirstNumber ==
    NonDirectionalParse =>
        fn_result.amount
          = IF NumberAt(fn_call.args) = {} THEN <<>>
            ELSE AmountDecidedAt(fn_call.args, First(NumberAt(fn_call.args)))

\* C26, amended: the number that decides is the first number that a word
\* of letters follows; the amount is attached only if that word is the
\* first-appearing ticker, and numbers after that pair are not considered.
C26_AmountOfFirstPair ==
    NonDirectionalParse =>
        fn_result.amount
          = IF PairAt(fn_call.args) = {} THEN <<>>
            ELSE AmountDecidedAt(fn_call.args, First(PairAt(fn_call.args)))

\* '2.5 USDC ETH 100 USDC': the first pair names the first ticker, the
\* later number is ignored
C26_Witness ==
    /\ NonDirectionalParse
    /\ fn_call.args = <<"2.5", "USDC", "ETH", "100", "USDC">>
    /\ fn_result = [from_token |-> "USDC", to_token |-> "ETH",
                    amount |-> <<DblDivInt(DblFromInt(5), 2)>>]


(***************************************************************************)
(* Properties of the grouping of the ranker.                               *)
(***************************************************************************)
PairOf(r) == <<r.path, r.dex>>
MatchPairs == {PairOf(fn_call.args[k]) : k \in DOMAIN fn_call.args}

RECURSIVE CountSum(_, _)
CountSum(stats, i) ==
    IF i > Len(stats) THEN 0 ELSE stats[i].count + CountSum(stats, i + 1)

\* C27: the ranker never merges two different (path, dex) pairs: the
\* returned entries have pairwise distinct pairs, there is one entry for
\* each pair of the matches, every match is counted in the entry of its
\* own pair and in no other, and the counts sum to the number of matches.
C27_NoMergedPairs ==
    Ranked =>
        /\ \A i, j \in DOMAIN fn_result :
              PairOf(fn_result[i]) = PairOf(fn_result[j]) => i = j
        /\ {PairOf(fn_result[i]) : i \in DOMAIN fn_result} = MatchPairs
        /\ \A i \in DOMAIN fn_result :
              fn_result[i].count
                = Cardinality({k \in DOMAIN fn_call.args :
                                 PairOf(fn_call.args[k]) = PairOf(fn_result[i])})
        /\ CountSum(fn_result, 1) = Len(fn_call.args)

\* four matches of four pairs, two of them with the same path: four
\* entries of count 1
C27_Witness ==
    /\ Ranked /\ Len(fn_call.args) = 4 /\ Len(fn_result) = 4
    /\ Cardinality({fn_result[i].path : i \in DOMAIN fn_result}) = 2
    /\ \A i \in DOMAIN fn_result : fn_result[i].count = 1


(***************************************************************************)
(* Frame properties of the wallet, and the simulate flag.                  *)
(***************************************************************************)
\* this step is a load_wallet call that returns None
LoadWalletFails ==
    /\ pc = "idle" /\ pc' = "done"
    /\ call'.op = "load_wallet"
    /\ outcome' = Return(None)

\* C28: a load_wallet call that returns None leaves account and address
\* as they were before the call.
C28_FailedLoadKeepsWallet ==
    [][LoadWalletFails => (account' = account /\ address' = address)]_vars

\* this step is a POST /connect-wallet that is answered with an error
ConnectWalletFails ==
    /\ pc = "idle" /\ pc' = "responded"
    /\ call'.op = "connect_wallet"
    /\ ~response'.success

\* C29: a connect-wallet request that fails leaves the executor and the
\* wallet that later execute-swap requests use as they were.
C29_FailedConnectKeepsExecutor ==
    [][ConnectWalletFails => UNCHANGED <<test_mode, account, address>>]_vars

\* C30: execute_swap signs and broadcasts only when the effective
\* simulate flag is false, the flag being the test_mode argument of the
\* call when given and the test_mode of the executor otherwise; on an
\* executor in test mode nothing is signed or broadcast unless the call
\* passes test_mode=False.
C30_SignsOnlyWhenNotSimulating ==
    (Executing /\ (nSign > 0 \/ nSend > 0)) =>
        /\ IF call.test_mode = <<>> THEN ~test_mode
           ELSE call.test_mode = <<FALSE>>
        /\ test_mode => call.test_mode = <<FALSE>>

\* an executor in test mode broadcasts for a call with test_mode=False
C30_Witness ==
    /\ Executing /\ test_mode /\ call.test_mode = <<FALSE>>
    /\ nSign = 1 /\ nSend = 1

=============================================================================
